---- MODULE Spec2Model ----
(***************************************************************************)
(* Model of the dse.modelc controller (controller.c, loader.c, modelc.c)   *)
(* and of the gateway facade (gateway.c).                                  *)
(*                                                                         *)
(* One caller thread drives the public entry points (modelc_configure,     *)
(* modelc_run, modelc_sync, model_gw_sync, modelc_exit); its position is   *)
(* pc.  modelc_shutdown runs in interrupt context and may fire between any *)
(* two steps of the caller thread.                                         *)
(*                                                                         *)
(* Times are counted in units of 0.05 s, so step_size 0.1 is 2, end_time   *)
(* 0.25 is 5 and end_time 0.5 is 10.  Every model time the program reaches *)
(* is a sum of step sizes; the comparisons the code makes on these sums    *)
(* (0.1+0.1+0.1 > 0.25, 0.1+0.1+0.1+0.1+0.1 = 0.5) come out the same in    *)
(* IEEE doubles as on the integers used here.                              *)
(***************************************************************************)
EXTENDS Integers, Sequences, FiniteSets, TLC

VARIABLES
    pc,               \* position of the caller thread
    call,             \* the entry point in progress: [fn, async, t]
    args,             \* ModelCArguments / SimulationSpec: [ninst, step_size, end_time]
    variant,          \* which translation unit provides controller_load_models
    controller,       \* __controller: "null", "live" or "freed" (dangling)
    adapter,          \* controller->adapter: "null", "live", "exited"
    stop_request,     \* controller->stop_request
    mc_stop_request,  \* modelc.c __stop_request
    interrupted,      \* adapter_interrupt has been invoked
    mem,              \* sim->instance_list: "live" or "freed"
    retry_count,      \* _create_endpoint: retry_count
    idx,              \* _instptr: index of the instance a loop is at
    vtable,           \* cm->vtable per instance: subset of {"create","step","destroy"}
    setup_func,       \* cm->model_setup_func per instance (set / NULL)
    exit_func,        \* cm->model_exit_func per instance (set / NULL)
    loaded,           \* controller_load_model returned 0 for the instance
    created,          \* number of create invocations per instance
    create_ok,        \* create returned 0 for the instance
    destroyed,        \* destroy has been invoked for the instance
    model_functions,  \* cm->model_functions per instance: set of names
    nreg,             \* registrations attempted by the create in progress
    reg_rc,           \* result of the last controller_register_model_function
    connected,        \* adapter_connect has been called
    registered,       \* adapter_register has been called
    model_time,       \* am->model_time per instance
    stop_time,        \* am->stop_time per instance
    step_data,        \* mf_step_data of step_model per instance: [model_time, stop_time]
    handler_times,    \* the (model_time, stop_time) the handlers of the last step_model were called with
    reported,         \* controller_step's local model_time
    ready_rc,         \* result of the last adapter_ready
    step_rc,          \* result of the last controller_step
    load_rc,          \* result of controller_load_models
    ret,              \* value the last entry point returned to the caller
    errno,            \* errno
    ticks,            \* controller_step calls begun since the entry point was called
    tickLog,          \* events of the current tick, in order
    hres,             \* what the step handlers of the current tick returned
    invoked,          \* the step handlers called in the current tick: << instance, name >>
    exitLog,          \* events of the current controller_exit, in order
    busLog,           \* events of the current controller_bus_ready, in order
    stop_phase,       \* where the caller thread was at the first modelc_shutdown
                      \* ("other" once the run it arrived in has returned)
    gw,               \* model_gw_setup has completed (the gateway descriptor exists)
    stale,            \* entry points called after the controller or the instances were freed
    sim_uid,          \* sim->uid
    endpoint_uid,     \* endpoint->uid: the UID the transport gives the endpoint
    inst_uid,         \* _instptr->uid per instance
    adapter_models,   \* adapter->models: pairs << UID key, instance >>
    signals,          \* the signals of the adapter models: [val, final_val, bin, bin_size, bin_buffer_size]
    channels          \* the ModelFunctionChannel objects of the model functions

vars == << pc, call, args, variant, controller, adapter, stop_request,
           mc_stop_request, interrupted, mem, retry_count, idx, vtable,
           setup_func, exit_func, loaded, created, create_ok, destroyed,
           model_functions, nreg, reg_rc, connected, registered, model_time,
           stop_time, step_data, handler_times, reported, ready_rc, step_rc,
           load_rc, ret,
           errno, ticks, tickLog, hres, invoked, exitLog, busLog, stop_phase,
           gw, stale, sim_uid, endpoint_uid, inst_uid, adapter_models, signals,
           channels >>

(***************************************************************************)
(* Bounds of the model.                                                    *)
(***************************************************************************)
\* controller_step is not begun once the model time has reached MaxTime.
MaxTime == 12
\* Model functions a create tries to register.
MaxReg == 2
\* Entry points the caller still invokes after the controller or the instance
\* list has been freed, and ticks such a call begins.
MaxStale == 1

(***************************************************************************)
(* Inputs.                                                                 *)
(***************************************************************************)
AllInst == {1, 2}

\* Command lines: instance count, step size and end time (units of 0.05 s).
Args ==
    { [ninst |-> 1, step_size |-> 2, end_time |-> 10],
      [ninst |-> 2, step_size |-> 2, end_time |-> 5],
      [ninst |-> 1, step_size |-> 2, end_time |-> 0],
      [ninst |-> 1, step_size |-> 0, end_time |-> 0] }

\* controller_load_models is defined in loader.c and in controller.c.
Variants == {"loader", "controller"}

\* Names a model registers its functions under.  The names are
\* interchangeable: the first function an instance gets registered is "f".
MFNames == {"f", "g"}

RegNames(mfs) == IF mfs = {} THEN {"f"} ELSE MFNames

\* Values a step handler returns.
HandlerRcs == {-1, 0, 1}

\* By how much the bus advances the stop time at a rendezvous: 0.1 or 0.2.
BusSteps == {2, 4}

\* Target times the gateway caller passes to model_gw_sync.
SyncTimes == {-2, 2, 6}

Insts == 1..args.ninst

\* Error numbers (errno.h, gateway.h); only their being distinct and positive matters.
E == [ ECANCELED |-> 125, EINVAL |-> 22, ETIME |-> 62, EEXIST |-> 17,
       E_GATEWAYBEHIND |-> 2001 ]

\* What the model library of an instance offers when it is loaded:
\* path = model_definition.full_path is set, opens = dlopen succeeds,
\* exports = the symbols dlsym finds, gateway = spec/runtime/gateway is declared.
Libs ==
    { [path |-> TRUE,  opens |-> TRUE,  exports |-> {"create", "step", "destroy"}, gateway |-> FALSE],
      [path |-> TRUE,  opens |-> TRUE,  exports |-> {"create", "step"}, gateway |-> FALSE],
      [path |-> TRUE,  opens |-> TRUE,  exports |-> {}, gateway |-> FALSE],
      [path |-> TRUE,  opens |-> FALSE, exports |-> {}, gateway |-> FALSE],
      [path |-> FALSE, opens |-> FALSE, exports |-> {}, gateway |-> TRUE],
      [path |-> FALSE, opens |-> FALSE, exports |-> {}, gateway |-> FALSE] }

NoCall == [fn |-> "none", async |-> FALSE, t |-> 0]

Terminal == {"exited", "aborted", "crashed"}

cfgv  == << args, variant >>
ctlv  == << controller, adapter, mem, stale >>
stopv == << stop_request, mc_stop_request, interrupted, stop_phase >>
loadv == << vtable, setup_func, exit_func, loaded, created, create_ok,
            destroyed, model_functions, nreg, reg_rc >>
busv  == << connected, registered, gw >>
timev == << model_time, stop_time, step_data, handler_times, reported >>
rcv   == << ready_rc, step_rc, load_rc, ret, errno >>
tickv == << ticks, tickLog, hres, invoked >>
logv == << exitLog, busLog >>
histv == << ticks, tickLog, hres, invoked, exitLog, busLog >>
uidv == << sim_uid, endpoint_uid, inst_uid, adapter_models >>
datav == << signals, channels >>

(***************************************************************************)
(* The state after the process has started: nothing configured, the        *)
(* controller unset, the instance structures zeroed (calloc).              *)
(***************************************************************************)
\* uint32_t values are pairs << high half, low half >> of 16 bits each.
U16 == 65536

U32(n) == << n \div U16, n % U16 >>

\* What the process has not touched yet.
Fresh ==
    /\ variant \in Variants
    /\ controller = "null"
    /\ adapter = "null"
    /\ stop_request = FALSE
    /\ mc_stop_request = FALSE
    /\ interrupted = FALSE
    /\ mem = "live"
    /\ retry_count = 0
    /\ idx = 0
    /\ vtable = [i \in AllInst |-> {}]
    /\ setup_func = [i \in AllInst |-> FALSE]
    /\ exit_func = [i \in AllInst |-> FALSE]
    /\ loaded = [i \in AllInst |-> FALSE]
    /\ created = [i \in AllInst |-> 0]
    /\ create_ok = [i \in AllInst |-> FALSE]
    /\ destroyed = [i \in AllInst |-> FALSE]
    /\ model_functions = [i \in AllInst |-> {}]
    /\ nreg = 0
    /\ reg_rc = 0
    /\ connected = FALSE
    /\ registered = FALSE
    /\ gw = FALSE
    /\ model_time = [i \in AllInst |-> 0]
    /\ stop_time = [i \in AllInst |-> 0]
    /\ step_data = [i \in AllInst |-> [model_time |-> 0, stop_time |-> 0]]
    /\ handler_times = {}
    /\ reported = 0
    /\ ready_rc = 0
    /\ step_rc = 0
    /\ load_rc = 0
    /\ ret = 0
    /\ errno = 0
    /\ ticks = 0
    /\ tickLog = << >>
    /\ hres = {}
    /\ invoked = {}
    /\ exitLog = << >>
    /\ busLog = << >>
    /\ stop_phase = "none"
    /\ stale = 0

Init ==
    /\ pc = "start"
    /\ call = NoCall
    /\ args \in Args
    /\ Fresh
    /\ sim_uid = U32(0)
    /\ endpoint_uid = U32(42)
    /\ inst_uid = [i \in AllInst |-> U32(0)]
    /\ adapter_models = {}
    /\ signals = << >>
    /\ channels = << >>

(***************************************************************************)
(* modelc_shutdown, called from interrupt context at any time.             *)
(***************************************************************************)
\* Where the caller thread is, as the claims about cancellation name it:
\* between two ticks of controller_run, inside a blocked adapter_ready, or
\* anywhere else.
PhaseOf(p) ==
    IF p \in {"run_check", "step_enter"} /\ call.fn = "run" /\ ticks > 0
        THEN IF p = "run_check" THEN "between_before_check" ELSE "between_after_check"
    ELSE IF p = "step_ready" /\ call.fn = "run" THEN "in_ready"
    ELSE "other"

\* controller_stop: no controller, no effect; else the flag and the interrupt hook.
ControllerStop ==
    IF controller = "null"
        THEN UNCHANGED << stop_request, interrupted >>
        ELSE /\ stop_request' = TRUE
             /\ interrupted' = (interrupted \/ adapter # "null")

ModelcShutdown ==
    /\ pc \notin Terminal
    /\ mc_stop_request' = TRUE
    /\ ControllerStop
    /\ stop_phase' = IF stop_phase = "none" THEN PhaseOf(pc) ELSE stop_phase
    /\ UNCHANGED << uidv, datav, pc, call, cfgv, ctlv, retry_count, idx, loadv,
                    busv, timev, rcv, histv >>

\* modelc_shutdown when the controller has been freed: controller_stop
\* passes its NULL test on the dangling pointer, writes stop_request into
\* freed memory and calls adapter_interrupt on the destroyed adapter.  That
\* is undefined: it goes on as in ModelcShutdown, or it faults.  The fault
\* ends the process, and with it the calls in progress and their locals.
StopAfterFree ==
    /\ pc \notin Terminal
    /\ controller = "freed"
    /\ mc_stop_request' = TRUE
    /\ stop_phase' = IF stop_phase = "none" THEN PhaseOf(pc) ELSE stop_phase
    /\ pc' = "crashed"
    /\ call' = NoCall
    /\ idx' = 0
    /\ step_data' = [i \in AllInst |-> [model_time |-> 0, stop_time |-> 0]]
    /\ handler_times' = {}
    /\ reported' = 0
    /\ ready_rc' = 0 /\ step_rc' = 0 /\ load_rc' = 0 /\ ret' = 0
    /\ ticks' = 0 /\ tickLog' = << >> /\ hres' = {} /\ invoked' = {}
    /\ exitLog' = << >> /\ busLog' = << >>
    /\ UNCHANGED << uidv, datav, cfgv, ctlv, stop_request, interrupted, retry_count,
                    loadv, busv, model_time, stop_time, errno >>

(***************************************************************************)
(* Reading or writing freed memory (the controller after controller_destroy,*)
(* the instance list after modelc_exit) is undefined: the first such access*)
(* of an entry point either faults, or finds the stale contents and the    *)
(* code goes on as modelled by the other actions.  The fault ends the       *)
(* process, and with it the call in progress and its locals.               *)
(***************************************************************************)
UseAfterFree ==
    /\ pc \in {"uid", "load_entry", "step_enter", "gw_check", "exit_loop", "exit_free"}
    /\ controller = "freed" \/ mem = "freed"
    /\ pc' = "crashed"
    /\ call' = NoCall
    /\ idx' = 0
    /\ step_data' = [i \in AllInst |-> [model_time |-> 0, stop_time |-> 0]]
    /\ handler_times' = {}
    /\ reported' = 0
    /\ ready_rc' = 0 /\ step_rc' = 0 /\ load_rc' = 0 /\ ret' = 0
    /\ ticks' = 0 /\ tickLog' = << >> /\ hres' = {} /\ invoked' = {}
    /\ exitLog' = << >> /\ busLog' = << >>
    /\ UNCHANGED << uidv, datav, cfgv, ctlv, stopv, retry_count, loadv, busv, model_time,
                    stop_time, errno >>

(***************************************************************************)
(* modelc_configure                                                        *)
(***************************************************************************)
\* The sanity check of the configuration: log_fatal ends the process.
ConfigureFatal(a) == a.step_size > a.end_time

ModelcConfigure ==
    /\ pc = "start"
    /\ pc' = IF ConfigureFatal(args) THEN "exited" ELSE "idle"
    /\ errno' = 0
    /\ UNCHANGED << uidv, datav, call, cfgv, ctlv, stopv, retry_count, idx, loadv,
                    busv, timev, ready_rc, step_rc, load_rc, ret, histv >>

(***************************************************************************)
(* modelc_run: endpoint, controller_init                                   *)
(***************************************************************************)
\* _create_endpoint starts with retry_count = 60.
RetryCount == 60

\* An entry point called after the controller or the instance list was freed
\* works on freed memory.
Freed == controller = "freed" \/ mem = "freed"

\* The caller calls an entry point.
Enter(fn, async, t) ==
    /\ pc = "idle"
    /\ Freed => stale < MaxStale
    /\ stale' = IF Freed THEN stale + 1 ELSE stale
    /\ call' = [fn |-> fn, async |-> async, t |-> t]
    /\ ret' = 0
    /\ UNCHANGED << controller, adapter, mem >>

\* _create_endpoint as a whole: an endpoint after some attempt; or no
\* endpoint, when every attempt failed, which is fatal in modelc_run; or a
\* failed attempt that finds __stop_request set, which is fatal with errno
\* ECANCELED.  The loop only reads __stop_request, so a modelc_shutdown
\* during the loop acts as one before it or after it.  EndpointAttempt
\* below is the loop pass by pass.
CallModelcRun(async) ==
    /\ Enter("run", async, 0)
    /\ \/ pc' = "uid" /\ errno' = 0
       \/ pc' = "exited" /\ errno' = 0
       \/ mc_stop_request /\ pc' = "exited" /\ errno' = E.ECANCELED
    /\ UNCHANGED << uidv, datav, cfgv, stopv, retry_count, idx, loadv, busv, timev,
                    ready_rc, step_rc, load_rc, histv >>

\* _create_endpoint is entered: retry_count = 60.
EndpointBegin ==
    /\ pc = "start"
    /\ retry_count' = RetryCount
    /\ pc' = "ep_create"
    /\ UNCHANGED << uidv, datav, call, cfgv, ctlv, stopv, idx, loadv, busv, timev, rcv,
                    histv >>

\* A loop pass that does not look at __stop_request after a failed attempt.
EndpointAttemptNoStop ==
    /\ pc = "ep_create"
    /\ IF retry_count - 1 = 0
          THEN pc' = "exited" /\ retry_count' = 0 /\ UNCHANGED errno
          ELSE \E ok \in BOOLEAN :
                  IF ok THEN pc' = "uid" /\ retry_count' = 0 /\ UNCHANGED errno
                  ELSE pc' = "ep_create" /\ retry_count' = retry_count - 1
                       /\ UNCHANGED errno
    /\ UNCHANGED << uidv, datav, call, cfgv, ctlv, stopv, idx, loadv, busv, timev,
                    ready_rc, step_rc, load_rc, ret, histv >>

\* One pass of `while (--retry_count)`: the loop ends without an endpoint
\* when the decremented count is 0; a failed attempt with __stop_request set
\* is fatal (errno ECANCELED); with no endpoint modelc_run is fatal.
EndpointAttempt ==
    /\ pc = "ep_create"
    /\ IF retry_count - 1 = 0
          THEN pc' = "exited" /\ retry_count' = 0 /\ UNCHANGED errno
          ELSE \E ok \in BOOLEAN :
                  IF ok THEN pc' = "uid" /\ retry_count' = 0 /\ UNCHANGED errno
                  ELSE IF mc_stop_request
                       THEN pc' = "exited" /\ retry_count' = 0 /\ errno' = E.ECANCELED
                       ELSE pc' = "ep_create" /\ retry_count' = retry_count - 1
                            /\ UNCHANGED errno
    /\ UNCHANGED << uidv, datav, call, cfgv, ctlv, stopv, idx, loadv, busv, timev,
                    ready_rc, step_rc, load_rc, ret, histv >>

\* uint32_t addition of a non-negative int c.
U32Add(a, c) ==
    LET lo == a[2] + (c % U16)
    IN  << (a[1] + (c \div U16) + (lo \div U16)) % U16, lo % U16 >>

\* By how much the generated UIDs of neighbouring instances differ.
UidStride == 10000

\* if (sim->uid == 0) sim->uid = endpoint->uid
SimUid(configured, ep) == IF configured = U32(0) THEN ep ELSE configured

\* A UID loop that counts the positions from 1.
GeneratedUidFromOne(uid, inst_counter) == U32Add(uid, (inst_counter + 1) * UidStride)

\* uint32_t _uid = (inst_counter * 10000) + sim->uid
GeneratedUid(uid, inst_counter) == U32Add(uid, inst_counter * UidStride)

\* if (_instptr->uid == 0) _instptr->uid = _uid
AssignUid(current, generated) == IF current = U32(0) THEN generated ELSE current

\* The UID loop of modelc_run walks the instance list; the instance at
\* index i of the model is at position i - 1 of the list.
SetupUids ==
    /\ pc = "uid"
    /\ pc' = "init"
    /\ sim_uid' = SimUid(sim_uid, endpoint_uid)
    /\ inst_uid' = [i \in AllInst |->
                       IF i \in Insts
                       THEN AssignUid(inst_uid[i], GeneratedUid(sim_uid', i - 1))
                       ELSE inst_uid[i]]
    /\ UNCHANGED << endpoint_uid, adapter_models, datav, call, cfgv, ctlv,
                    stopv, retry_count, idx, loadv, busv, timev, rcv, histv >>

\* controller_destroy frees the controller and leaves __controller as it is.
ControllerDestroyed(c) == IF c = "null" THEN "null" ELSE "freed"

\* controller_init: asserts that no controller is set; allocates it; creates
\* the adapter.  A failure ends in controller_destroy and -1, which
\* modelc_run does not look at.
ControllerInit ==
    /\ pc = "init"
    /\ IF controller # "null"
          THEN /\ pc' = "aborted"
               /\ UNCHANGED << controller, adapter, stop_request, errno >>
          ELSE /\ pc' = "load_entry"
               /\ \/ /\ controller' = "live"
                     /\ adapter' = "live"
                     /\ stop_request' = FALSE
                     /\ errno' = 0
                  \/ /\ controller' = ControllerDestroyed("live")
                     /\ adapter' = "null"
                     /\ stop_request' = FALSE
                     /\ errno' = E.EINVAL
                  \/ /\ controller' = ControllerDestroyed("null")
                     /\ UNCHANGED << adapter, stop_request >>
                     /\ errno' = 0
    /\ adapter_models' = IF controller # "null" THEN adapter_models ELSE {}
    /\ UNCHANGED << sim_uid, endpoint_uid, inst_uid, datav, call, cfgv, mem,
                    stale, mc_stop_request, interrupted,
                    stop_phase, retry_count, idx, loadv, busv, timev,
                    ready_rc, step_rc, load_rc, ret, histv >>

(***************************************************************************)
(* controller_load_models (loader.c and controller.c)                      *)
(***************************************************************************)
\* loader.c controller_load_model: the result and the vtable it leaves.
LoaderLoadModel(lib, vt) ==
    IF lib.path
    THEN IF lib.opens
         THEN [rc |-> 0, vtable |-> lib.exports]
         ELSE [rc |-> E.EINVAL, vtable |-> vt]
    ELSE IF lib.gateway
         THEN [rc |-> 0, vtable |-> {"create", "step", "destroy"}]
         ELSE [rc |-> 0, vtable |-> vt]

\* controller.c controller_load_model: the result and the setup and exit
\* functions it leaves.  The registered symbols __model_setup_func and
\* __model_exit_func are never set.
ControllerLoadModel(lib, su, ex) ==
    IF lib.path
    THEN IF lib.opens /\ "create" \in lib.exports
         THEN [rc |-> 0, setup |-> TRUE, exit |-> "destroy" \in lib.exports]
         ELSE [rc |-> E.EINVAL, setup |-> su, exit |-> ex]
    ELSE [rc |-> 0, setup |-> FALSE, exit |-> FALSE]

\* loader.c: neither create nor step was found.
InterfaceIncomplete(vt) == "create" \notin vt /\ "step" \notin vt

\* loader.c: how the loop goes on after controller_load_model returned r:
\* the next position, and the rc the loop is left with on a break.
LoaderAfterLoad(r) ==
    IF r.rc # 0 THEN [next |-> "load_ret", rc |-> r.rc, errno |-> E.EINVAL]
    ELSE IF InterfaceIncomplete(r.vtable)
         THEN [next |-> "load_ret", rc |-> r.rc, errno |-> 0]
         ELSE [next |-> "create", rc |-> r.rc, errno |-> 0]

\* controller.c: the same for its loop.
ControllerAfterLoad(r) ==
    IF r.rc # 0 THEN [next |-> "load_ret", rc |-> r.rc, errno |-> E.EINVAL]
    ELSE IF ~r.setup
         THEN [next |-> "load_ret", rc |-> E.EINVAL, errno |-> E.EINVAL]
         ELSE [next |-> "create", rc |-> r.rc, errno |-> 0]

\* The head of controller_load_models: the controller and its adapter.
LoadModelsEntry ==
    /\ pc = "load_entry"
    /\ IF controller = "null"
          THEN pc' = (IF variant = "controller" THEN "aborted" ELSE "crashed")
               /\ UNCHANGED << idx, load_rc >>
          ELSE IF adapter = "null"
               THEN pc' = "aborted" /\ UNCHANGED << idx, load_rc >>
               ELSE pc' = "load" /\ idx' = 1 /\ load_rc' = 0
    /\ UNCHANGED << uidv, datav, call, cfgv, ctlv, stopv, retry_count, loadv, busv,
                    timev, ready_rc, step_rc, ret, errno, histv >>

\* hashmap_set: the entry of the name is set to the model function.
HashmapSet(mfs, name, fn) == { m \in mfs : m[1] # name } \cup { << name, fn >> }

\* The key an adapter model is bound under: the decimal text of the UID.
\* Distinct UIDs have distinct texts (as long as the text fits the key
\* buffer, whose length is defined outside these sources).
UidKey(uid) == uid

\* One pass of the loop up to the call of create: bind the adapter model,
\* load the model, check what was loaded.
LoadModel ==
    /\ pc = "load"
    /\ idx \in Insts
    /\ adapter_models' = HashmapSet(adapter_models, UidKey(inst_uid[idx]), idx)
    /\ \E lib \in Libs :
         IF variant = "loader"
         THEN LET r == LoaderLoadModel(lib, vtable[idx])
                  n == LoaderAfterLoad(r)
              IN  /\ vtable' = [vtable EXCEPT ![idx] = r.vtable]
                  /\ loaded' = [loaded EXCEPT ![idx] = (r.rc = 0)]
                  /\ pc' = n.next
                  /\ load_rc' = n.rc
                  /\ errno' = n.errno
                  /\ UNCHANGED << setup_func, exit_func >>
         ELSE LET r == ControllerLoadModel(lib, setup_func[idx], exit_func[idx])
                  n == ControllerAfterLoad(r)
              IN  /\ setup_func' = [setup_func EXCEPT ![idx] = r.setup]
                  /\ exit_func' = [exit_func EXCEPT ![idx] = r.exit]
                  /\ loaded' = [loaded EXCEPT ![idx] = (r.rc = 0)]
                  /\ pc' = n.next
                  /\ load_rc' = n.rc
                  /\ errno' = n.errno
                  /\ UNCHANGED vtable
    /\ UNCHANGED << sim_uid, endpoint_uid, inst_uid, datav, call, cfgv, ctlv, stopv, retry_count, idx, created,
                    create_ok, destroyed, model_functions, nreg, reg_rc, busv,
                    timev, ready_rc, step_rc, ret, histv >>

\* modelc_model_create (loader.c) or model_setup_func (controller.c) is
\* entered: the model's create runs.
CreateBegin ==
    /\ pc = "create"
    /\ created' = [created EXCEPT ![idx] = @ + 1]
    /\ nreg' = 0
    /\ pc' = "in_create"
    /\ UNCHANGED << uidv, datav, call, cfgv, ctlv, stopv, retry_count, idx, vtable,
                    setup_func, exit_func, loaded, create_ok, destroyed,
                    model_functions, reg_rc, busv, timev, rcv, histv >>

\* A lookup that never finds the name.
NeverRegistered(mfs, name) == FALSE

\* controller_get_model_function returns a handle: the map of the instance,
\* a set of << name, model function >>, has an entry for the name.
AlreadyRegistered(mfs, name) == \E m \in mfs : m[1] = name


\* controller_register_model_function: -1 and EEXIST for a name that is
\* registered, else the function is set in the map (hashmap_set may fail).
RegisterResult(mfs, name, fn, set_ok) ==
    IF AlreadyRegistered(mfs, name)
    THEN [rc |-> -1, errno |-> E.EEXIST, mfs |-> mfs]
    ELSE IF ~set_ok THEN [rc |-> -1, errno |-> E.EINVAL, mfs |-> mfs]
    ELSE [rc |-> 0, errno |-> 0, mfs |-> HashmapSet(mfs, name, fn)]

\* The model function object a create passes in its next registration: it
\* offers its functions one by one, the next once the one before is in the
\* map.
NextFunction(mfs) == Cardinality(mfs) + 1

\* The create in progress calls back to register a model function.
RegisterModelFunction ==
    /\ pc = "in_create"
    /\ nreg < MaxReg
    /\ \E name \in RegNames(model_functions[idx]), set_ok \in BOOLEAN :
         LET r == RegisterResult(model_functions[idx], name,
                                  NextFunction(model_functions[idx]), set_ok)
         IN  /\ model_functions' = [model_functions EXCEPT ![idx] = r.mfs]
             /\ reg_rc' = r.rc
             /\ errno' = IF r.rc = 0 THEN errno ELSE r.errno
    /\ nreg' = nreg + 1
    /\ UNCHANGED << uidv, datav, pc, call, cfgv, ctlv, stopv, retry_count, idx,
                    vtable, setup_func, exit_func, loaded, created, create_ok,
                    destroyed, busv, timev, ready_rc, step_rc, load_rc, ret,
                    histv >>

\* A loop that goes on with the next instance whatever create returned.
AfterCreateGoesOn(rc, i) ==
    IF i + 1 \in Insts THEN [next |-> "load", idx |-> i + 1]
    ELSE [next |-> "load_ret", idx |-> i + 1]

\* Both loops: after create returned rc, go on with the next instance or
\* leave the loop with rc.
AfterCreate(rc, i) ==
    IF rc # 0 THEN [next |-> "load_ret", idx |-> i]
    ELSE IF i + 1 \in Insts THEN [next |-> "load", idx |-> i + 1]
         ELSE [next |-> "load_ret", idx |-> i + 1]

\* The create returns.
CreateReturn ==
    /\ pc = "in_create"
    /\ \E rc \in {0, E.EINVAL} :
         LET n == AfterCreate(rc, idx)
         IN  /\ create_ok' = [create_ok EXCEPT ![idx] = (rc = 0)]
             /\ load_rc' = rc
             /\ errno' = IF rc # 0 /\ errno = 0 THEN E.EINVAL ELSE errno
             /\ pc' = n.next
             /\ idx' = n.idx
    /\ nreg' = 0
    /\ reg_rc' = 0
    /\ UNCHANGED << uidv, datav, call, cfgv, ctlv, stopv, retry_count, vtable,
                    setup_func, exit_func, loaded, created, destroyed,
                    model_functions, busv, timev, ready_rc,
                    step_rc, ret, histv >>

(***************************************************************************)
(* modelc_run after loading; controller_bus_ready; controller_run          *)
(***************************************************************************)
\* modelc_run: a load failure is fatal; else the bus is made ready, by
\* modelc_run itself (async) or at the head of controller_run, which
\* returns at once when there is no controller.
AfterLoadModels ==
    /\ pc = "load_ret"
    /\ IF load_rc # 0
          THEN pc' = "exited" /\ UNCHANGED errno
          ELSE IF call.async
               THEN pc' = "bus_start" /\ UNCHANGED errno
               ELSE /\ errno' = 0
                    /\ pc' = IF controller = "null" THEN "run_ret" ELSE "bus_start"
    /\ load_rc' = 0
    /\ idx' = 0
    /\ UNCHANGED << uidv, datav, call, cfgv, ctlv, stopv, retry_count, loadv,
                    busv, timev, ready_rc, step_rc, ret, histv >>

\* adapter_connect(adapter, sim, 5): the number of retries.
ConnectRetry == 5

\* controller_bus_ready: the start hook of the endpoint, when it has one.
BusStart ==
    /\ pc = "bus_start"
    /\ \E start \in BOOLEAN :
         busLog' = IF start THEN << << "start" >> >> ELSE << >>
    /\ pc' = "bus_connect"
    /\ UNCHANGED << uidv, datav, call, cfgv, ctlv, stopv, retry_count, idx, loadv,
                    busv, timev, rcv, tickv, exitLog >>

\* controller_bus_ready: adapter_connect with 5 retries.
BusConnect ==
    /\ pc = "bus_connect"
    /\ connected' = TRUE
    /\ busLog' = Append(busLog, << "connect", ConnectRetry >>)
    /\ pc' = "bus_check"
    /\ UNCHANGED << uidv, datav, call, cfgv, ctlv, stopv, retry_count, idx, loadv,
                    registered, gw, timev, rcv, tickv, exitLog >>

\* A controller_bus_ready that registers whether or not a stop is requested.
RegisterAlways(stop) == TRUE

\* controller_bus_ready after connect: no register once a stop is requested.
RegisterAfterConnect(stop) == ~stop

\* controller_bus_ready after adapter_connect returned: the test of
\* stop_request, and adapter_register.
BusRegister ==
    /\ pc = "bus_check"
    /\ IF RegisterAfterConnect(stop_request)
          THEN /\ registered' = TRUE
               /\ busLog' = Append(busLog, << "register" >>)
          ELSE UNCHANGED << registered, busLog >>
    /\ pc' = "bus_ret"
    /\ UNCHANGED << uidv, datav, call, cfgv, ctlv, stopv, retry_count, idx, loadv,
                    connected, gw, timev, rcv, tickv, exitLog >>

\* controller_bus_ready has returned: an async modelc_run returns 0,
\* controller_run enters its loop.
BusReturn ==
    /\ pc = "bus_ret"
    /\ IF call.async
          THEN pc' = "idle" /\ ret' = 0 /\ gw' = TRUE /\ call' = NoCall
          ELSE pc' = "run_check" /\ UNCHANGED << ret, gw, call >>
    /\ busLog' = << >>
    /\ UNCHANGED << uidv, datav, cfgv, ctlv, stopv, retry_count, idx, loadv, connected,
                    registered, timev, ready_rc, step_rc, load_rc, errno,
                    tickv, exitLog >>

\* controller_run: the head of the loop.  A stop request ends the loop with
\* errno ECANCELED, else controller_step is called.
RunCheck ==
    /\ pc = "run_check"
    /\ IF stop_request
          THEN pc' = "run_ret" /\ errno' = E.ECANCELED
          ELSE pc' = "step_enter" /\ UNCHANGED errno
    /\ UNCHANGED << uidv, datav, call, cfgv, ctlv, stopv, retry_count, idx, loadv,
                    busv, timev, ready_rc, step_rc, load_rc, ret, histv >>

\* modelc_run: the value returned after controller_run.
ModelcRunResult(e) == IF e = E.ECANCELED THEN e ELSE 0

RunReturn ==
    /\ pc = "run_ret"
    /\ ret' = ModelcRunResult(errno)
    /\ pc' = "idle"
    /\ ticks' = 0
    /\ ready_rc' = 0
    /\ step_rc' = 0
    /\ call' = NoCall
    /\ stop_phase' = IF stop_phase = "none" THEN "none" ELSE "other"
    /\ UNCHANGED << uidv, datav, cfgv, ctlv, stop_request, mc_stop_request, interrupted,
                    retry_count, idx, loadv, busv, timev, load_rc, errno,
                    tickLog, hres, invoked, logv >>

(***************************************************************************)
(* marshal(): the signals of the adapter models and the channels of the    *)
(* model functions.                                                        *)
(*                                                                         *)
(* A signal is [val, final_val, bin, bin_buffer_size]; bin holds the       *)
(* bin_size bytes in use, so bin_size is Len(bin).  A channel of a model   *)
(* function is [mi, mf, sm, signal_value_double, signal_value_binary,      *)
(* signal_value_binary_buffer_size]: its instance and model function (an   *)
(* entry of the instance's model_functions), the                           *)
(* signals adapter_get_signal_map finds for its signal names, and its      *)
(* arrays, each with one entry per signal or, when the array is NULL,      *)
(* empty.  channels lists the channels of an instance in the order         *)
(* hashmap_iterator visits them.                                           *)
(***************************************************************************)
BinSize(bin) == Len(bin)

HasDouble(mfc) == mfc.signal_value_double # << >>

HasBinary(mfc) == mfc.signal_value_binary # << >>

\* A dse_buffer_append that never makes the buffer larger.
BufferAppendNoGrow(bin, buffer_size, data) ==
    [bin |-> bin \o data, buffer_size |-> buffer_size]

\* dse_buffer_append(&buffer, &size, &buffer_size, binary, binary_size): the
\* bytes are put behind the bytes in use; the buffer grows when they do not
\* fit.
BufferAppend(bin, buffer_size, data) ==
    LET new_size == BinSize(bin) + BinSize(data)
    IN  [bin |-> bin \o data,
         buffer_size |-> IF new_size > buffer_size THEN new_size ELSE buffer_size]

\* A binary object whose size is not reset after it was appended.
NotConsumed(bin) == bin

\* The binary object was consumed: its size is set to 0.
Consumed(bin) == << >>

\* An ADAPTER->MODEL copy that reads the staging slot.
ScalarFromFinal(signal) == signal.final_val

\* __marshal__adapter2model: the scalar a model is given for a signal.
ScalarFromSignal(signal) == signal.val

\* A MODEL->ADAPTER copy that writes the current value.
ScalarToVal(signal, v) == [signal EXCEPT !.val = v]

\* __marshal__model2adapter: the signal after the scalar of the model is
\* copied to it.
ScalarToSignal(signal, v) == [signal EXCEPT !.final_val = v]

\* __marshal__model2adapter, the loop over the scalars from index si on.
RECURSIVE M2ADouble(_, _, _)
M2ADouble(mfc, sigs, si) ==
    IF si > Len(mfc.sm) THEN sigs
    ELSE M2ADouble(mfc,
             [sigs EXCEPT ![mfc.sm[si]] =
                 ScalarToSignal(@, mfc.signal_value_double[si])],
             si + 1)

\* __marshal__model2adapter, the loop over the binaries from index si on:
\* the model's bytes are appended to the signal and the model's size is
\* set to 0.
RECURSIVE M2ABinary(_, _, _)
M2ABinary(mfc, sigs, si) ==
    IF si > Len(mfc.sm) THEN [mfc |-> mfc, sigs |-> sigs]
    ELSE LET s == mfc.sm[si]
             b == BufferAppend(sigs[s].bin, sigs[s].bin_buffer_size,
                               mfc.signal_value_binary[si])
         IN  M2ABinary(
                 [mfc EXCEPT !.signal_value_binary[si] = Consumed(@)],
                 [sigs EXCEPT ![s].bin = b.bin,
                              ![s].bin_buffer_size = b.buffer_size],
                 si + 1)

\* __marshal__model2adapter for one channel.
MarshalModel2Adapter(mfc, sigs) ==
    LET s1 == IF HasDouble(mfc) THEN M2ADouble(mfc, sigs, 1) ELSE sigs
    IN  IF HasBinary(mfc) THEN M2ABinary(mfc, s1, 1)
        ELSE [mfc |-> mfc, sigs |-> s1]

\* __marshal__adapter2model, the loop over the scalars from index si on.
RECURSIVE A2MDouble(_, _, _)
A2MDouble(mfc, sigs, si) ==
    IF si > Len(mfc.sm) THEN mfc
    ELSE A2MDouble(
             [mfc EXCEPT !.signal_value_double[si] = ScalarFromSignal(sigs[mfc.sm[si]])],
             sigs, si + 1)

\* __marshal__adapter2model, the loop over the binaries from index si on:
\* the signal's bytes are appended to the model's buffer and the signal's
\* size is set to 0.
RECURSIVE A2MBinary(_, _, _)
A2MBinary(mfc, sigs, si) ==
    IF si > Len(mfc.sm) THEN [mfc |-> mfc, sigs |-> sigs]
    ELSE LET s == mfc.sm[si]
             b == BufferAppend(mfc.signal_value_binary[si],
                               mfc.signal_value_binary_buffer_size[si],
                               sigs[s].bin)
         IN  A2MBinary(
                 [mfc EXCEPT !.signal_value_binary[si] = b.bin,
                             !.signal_value_binary_buffer_size[si] = b.buffer_size],
                 [sigs EXCEPT ![s].bin = Consumed(@)],
                 si + 1)

\* __marshal__adapter2model for one channel.
MarshalAdapter2Model(mfc, sigs) ==
    LET m1 == IF HasDouble(mfc) THEN A2MDouble(mfc, sigs, 1) ELSE mfc
    IN  IF HasBinary(mfc) THEN A2MBinary(m1, sigs, 1)
        ELSE [mfc |-> m1, sigs |-> sigs]

\* marshal(sim, dir) from instance i and channel c on: the instances in list
\* order and, for each, its channels in the order of the iterators.
RECURSIVE Marshal(_, _, _, _, _)
Marshal(dir, i, c, chs, sigs) ==
    IF i > args.ninst THEN [channels |-> chs, signals |-> sigs]
    ELSE IF c > Len(chs) THEN Marshal(dir, i + 1, 1, chs, sigs)
    ELSE IF chs[c].mi # i \/ chs[c].mf \notin model_functions[i]
         THEN Marshal(dir, i, c + 1, chs, sigs)
    ELSE LET r == IF dir = "m2a" THEN MarshalModel2Adapter(chs[c], sigs)
                                 ELSE MarshalAdapter2Model(chs[c], sigs)
         IN  Marshal(dir, i, c + 1, [chs EXCEPT ![c] = r.mfc], r.sigs)

(***************************************************************************)
(* controller_step                                                         *)
(***************************************************************************)
\* The events marshal() adds to the tick for direction dir: one per instance,
\* in list order.
\* A marshal() that handles the first instance it is given and stops there.
MarshalFirstOnly(dir, i, n) ==
    IF i > n THEN << >> ELSE << << dir, i >> >>

RECURSIVE MarshalEvents(_, _, _)
MarshalEvents(dir, i, n) ==
    IF i > n THEN << >> ELSE << << dir, i >> >> \o MarshalEvents(dir, i + 1, n)

\* A controller_step that refuses to step once the controller's
\* stop_request is set.
StepProceedsUnlessStopped(c, a, stop) == c # "null" /\ a # "null" /\ ~stop

\* controller_step: assert(__controller), assert(controller->adapter).  The
\* function holds the Controller, with its stop_request, and tests the
\* pointer and the adapter only.
StepProceeds(c, a, stop) == c # "null" /\ a # "null"

\* The head of controller_step, run with the controller's stop_request being
\* stop: the asserts on the controller and its adapter, then
\* marshal(MODEL2ADAPTER).
ControllerStepHead(stop) ==
    /\ pc = "step_enter"
    /\ model_time[1] < MaxTime
    /\ Freed => ticks < MaxStale
    /\ IF ~StepProceeds(controller, adapter, stop)
          THEN pc' = "aborted" /\ UNCHANGED << ticks, tickLog, hres, invoked, datav >>
          ELSE /\ pc' = "step_ready"
               /\ ticks' = ticks + 1
               /\ tickLog' = MarshalEvents("m2a", 1, args.ninst)
               /\ hres' = {}
               /\ invoked' = {}
               /\ LET r == Marshal("m2a", 1, 1, channels, signals)
                  IN  channels' = r.channels /\ signals' = r.signals
    /\ UNCHANGED << uidv, call, cfgv, ctlv, stopv, retry_count, idx, loadv,
                    busv, timev, rcv, logv >>

StepM2A == ControllerStepHead(stop_request)

\* Scalar values of signals.
DoubleValues == {0, 7}

\* The longest binary object the bus delivers for a signal at a rendezvous.
MaxBytes == 2

\* What the bus delivers for a binary signal: nothing, or bytes 1, 2, ...
Deliveries == { << >>, [i \in 1..MaxBytes |-> i] }

\* What a step handler appends to a binary slot of its channel.
ModelBytes == { << >>, << 9 >> }

\* adapter_ready with result 0: the adapter has published the signals
\* (final_val, and the bytes of bin, which are consumed) and has received
\* from the bus a value val for every signal that a scalar array is mapped
\* to and a binary object, which it appends to bin, for every signal that a
\* binary array is mapped to.
BusExchange(chs, sigs) ==
    LET Mapped(s, has(_)) ==
            \E c \in 1..Len(chs) :
                has(chs[c]) /\ \E si \in 1..Len(chs[c].sm) : chs[c].sm[si] = s
        News(s) == [val : IF Mapped(s, HasDouble) THEN DoubleValues
                                                  ELSE {sigs[s].val},
                    bin : IF Mapped(s, HasBinary) THEN Deliveries ELSE {<< >>}]
    IN  { [s \in DOMAIN sigs |->
              LET b == BufferAppend(Consumed(sigs[s].bin),
                                    sigs[s].bin_buffer_size, x[s].bin)
              IN  [val |-> x[s].val, final_val |-> sigs[s].final_val,
                   bin |-> b.bin, bin_buffer_size |-> b.buffer_size]] :
          x \in { y \in [DOMAIN sigs -> [val : DoubleValues, bin : Deliveries]] :
                      \A s \in DOMAIN sigs : y[s] \in News(s) } }

\* Results of adapter_ready: 0, ETIME, another error.
ReadyRcs == {0, E.ETIME, E.EINVAL}

\* controller_step after adapter_ready returned rc.
AfterReady(rc) == IF rc # 0 THEN "step_ret" ELSE "step_a2m"

\* The call of adapter_ready returns what the bus answers: a result and, with
\* result 0, the next stop time of the instances, which the bus has put one
\* of its steps past their model time.
AdapterReady ==
    /\ pc = "step_ready"
    /\ \E rc \in ReadyRcs :
         /\ ready_rc' = rc
         /\ pc' = AfterReady(rc)
         /\ IF rc = 0
               THEN /\ \E d \in BusSteps :
                         stop_time' = [i \in AllInst |->
                             IF i \in Insts THEN model_time[i] + d
                                            ELSE stop_time[i]]
                    /\ signals' \in BusExchange(channels, signals)
                    /\ UNCHANGED << step_rc, errno >>
               ELSE /\ step_rc' = rc
                    /\ \E e \in {errno, rc} : errno' = e
                    /\ UNCHANGED << stop_time, signals >>
    /\ tickLog' = Append(tickLog, << "ready" >>)
    /\ UNCHANGED << uidv, channels, call, cfgv, ctlv, stopv, retry_count, idx, loadv,
                    busv, model_time, step_data, handler_times, reported,
                    load_rc, ret,
                    ticks, hres, invoked, logv >>

\* marshal(ADAPTER2MODEL), then the locals of controller_step and the head
\* of sim_step_models.
StepA2M ==
    /\ pc = "step_a2m"
    /\ tickLog' = tickLog \o MarshalEvents("a2m", 1, args.ninst)
    /\ LET r == Marshal("a2m", 1, 1, channels, signals)
       IN  channels' = r.channels /\ signals' = r.signals
    /\ reported' = args.end_time
    /\ idx' = 1
    /\ errno' = 0
    /\ pc' = "step_models"
    /\ UNCHANGED << uidv, call, cfgv, ctlv, stopv, retry_count, loadv, busv,
                    model_time, stop_time, step_data, handler_times, ready_rc,
                    step_rc,
                    load_rc, ret, ticks, hres, invoked, logv >>

\* A _do_step_func that hands the handler's rc on to the iterator.
DoStepFuncPropagates(hrc) == hrc

\* _do_step_func: what it returns to hashmap_iterator for a handler's rc.
DoStepFunc(hrc) == 0

\* An iteration that stops at a handler that returned non-zero, with that
\* value.
IterateStepToFailure(rcs) ==
    IF \E f \in DOMAIN rcs : rcs[f] # 0
    THEN rcs[CHOOSE f \in DOMAIN rcs : rcs[f] # 0]
    ELSE 0

\* hashmap_iterator(mf_map, _do_step_func, false, ...): 0, or the non-zero
\* value at which the iteration stopped.
IterateStep(rcs) ==
    IF \E f \in DOMAIN rcs : DoStepFunc(rcs[f]) # 0
    THEN DoStepFunc(rcs[CHOOSE f \in DOMAIN rcs : DoStepFunc(rcs[f]) # 0])
    ELSE 0

\* The model functions the iteration can have called: all of them, or, when
\* it stopped at a non-zero result of _do_step_func, the one it stopped at
\* and any of those it passed before (the order of the map is not defined).
IterateInvoked(rcs) ==
    IF \E f \in DOMAIN rcs : DoStepFunc(rcs[f]) # 0
    THEN { fs \in SUBSET (DOMAIN rcs) :
             \E f \in fs : /\ DoStepFunc(rcs[f]) # 0
                            /\ \A g \in fs \ {f} : DoStepFunc(rcs[g]) = 0 }
    ELSE { DOMAIN rcs }

\* What a step handler may do with one slot of a channel it owns: set the
\* scalar; leave the bytes it was given in the binary slot or consume them,
\* and append bytes of its own.
SlotWrites(mfc) ==
    [d : IF HasDouble(mfc) THEN DoubleValues ELSE {0},
     keep : IF HasBinary(mfc) THEN BOOLEAN ELSE {TRUE},
     bytes : IF HasBinary(mfc) THEN ModelBytes ELSE {<< >>}]

\* The channel after its handler did w[si] with slot si.
Written(mfc, w) ==
    LET n == Len(mfc.sm)
        b(si) == BufferAppend(
                     IF w[si].keep THEN mfc.signal_value_binary[si]
                                   ELSE Consumed(mfc.signal_value_binary[si]),
                     mfc.signal_value_binary_buffer_size[si], w[si].bytes)
    IN  [mfc EXCEPT
            !.signal_value_double =
                IF HasDouble(mfc) THEN [si \in 1..n |-> w[si].d] ELSE << >>,
            !.signal_value_binary =
                IF HasBinary(mfc) THEN [si \in 1..n |-> b(si).bin] ELSE << >>,
            !.signal_value_binary_buffer_size =
                IF HasBinary(mfc) THEN [si \in 1..n |-> b(si).buffer_size]
                                  ELSE << >>]

\* The channels after the step handlers fs of instance i have run: every
\* channel from c on that belongs to one of them is written by it.
RECURSIVE HandlerWrites(_, _, _, _)
HandlerWrites(chs, c, i, fs) ==
    IF c > Len(chs) THEN { chs }
    ELSE IF chs[c].mi = i /\ chs[c].mf \in fs
         THEN UNION { HandlerWrites([chs EXCEPT ![c] = Written(chs[c], w)],
                                    c + 1, i, fs) :
                      w \in [1..Len(chs[c].sm) -> SlotWrites(chs[c])] }
         ELSE HandlerWrites(chs, c + 1, i, fs)

\* A step_model that leaves the model time where it was.
SteppedModelTimeKept(mt, st) == mt

\* step_model: the model time an instance is left with.
SteppedModelTime(mt, st) == st

\* sim_step_models: its result for the rc the loop was left with.
SimStepModelsResult(rc) == IF rc < 0 THEN 1 ELSE IF rc > 0 THEN 2 ELSE 0

\* What a handler may leave in the model time it was given: the time as it
\* was, or a time of its own.
HandlerTimes(sd) == { sd.model_time, sd.stop_time + 1 }

\* A _do_step_func that hands the handler the address of
\* step_data->model_time itself.
StepDataShared(sd, w) == [sd EXCEPT !.model_time = w]

\* _do_step_func: `double model_time = step_data->model_time` and the handler
\* is given &model_time; step_data after the handler wrote w through it.
StepDataAfter(sd, w) == sd

\* hashmap_iterator calls _do_step_func for the model functions fs, one
\* after the other (in a fixed order of the map): the times each handler
\* is called with, and step_data when all have returned.  Every handler
\* leaves w in the model time it was given.
RECURSIVE HandlerCalls(_, _, _)
HandlerCalls(sd, fs, w) ==
    IF fs = {} THEN [times |-> {}, sd |-> sd]
    ELSE LET f == CHOOSE g \in fs : TRUE
             r == HandlerCalls(StepDataAfter(sd, w), fs \ {f}, w)
         IN  [times |-> { << sd.model_time, sd.stop_time >> } \cup r.times,
              sd |-> r.sd]

\* One pass of the loop of sim_step_models: step_model for the instance at
\* idx.  Every model function's handler is called with the times of
\* step_data and returns some rc.
StepModel ==
    /\ pc = "step_models"
    /\ idx \in Insts
    /\ \E rcs \in [model_functions[idx] -> HandlerRcs] :
         LET rc == IterateStep(rcs)
             sd == [model_time |-> model_time[idx], stop_time |-> stop_time[idx]]
         IN  /\ \E fs \in IterateInvoked(rcs) :
                   /\ invoked' = invoked \cup { << idx, f >> : f \in fs }
                   /\ hres' = hres \cup { rcs[f] : f \in fs }
                   /\ channels' \in HandlerWrites(channels, 1, idx, fs)
                   /\ \E w \in HandlerTimes(sd) :
                         LET hc == HandlerCalls(sd, fs, w)
                         IN  /\ handler_times' = hc.times
                             /\ step_data' = [step_data EXCEPT ![idx] = hc.sd]
             /\ step_rc' = SimStepModelsResult(rc)
             /\ IF rc = 0 /\ idx + 1 \in Insts
                   THEN pc' = "step_models" /\ idx' = idx + 1
                   ELSE pc' = "step_end" /\ UNCHANGED idx
    /\ model_time' = [model_time EXCEPT ![idx] = SteppedModelTime(@, stop_time[idx])]
    /\ reported' = model_time'[idx]
    /\ tickLog' = Append(tickLog, << "step", idx >>)
    /\ UNCHANGED << uidv, signals, call, cfgv, ctlv, stopv, retry_count, loadv, busv,
                    stop_time, ready_rc, load_rc, ret, errno, ticks, logv >>

\* An end condition that ignores whether an end time is configured.
EndConditionAlways(end_time, mt) == IF end_time < mt THEN 1 ELSE 0

\* An end condition that is met when the model time reaches the end time.
EndConditionReached(end_time, mt) == IF end_time > 0 /\ end_time <= mt THEN 1 ELSE 0

\* controller_step: the end condition.
EndCondition(end_time, mt) == IF end_time > 0 /\ end_time < mt THEN 1 ELSE 0

\* The tail of controller_step after sim_step_models returned.
StepEnd ==
    /\ pc = "step_end"
    /\ step_rc' = IF step_rc # 0 THEN step_rc ELSE EndCondition(args.end_time, reported)
    /\ pc' = "step_ret"
    /\ idx' = 0
    /\ UNCHANGED << uidv, datav, call, cfgv, ctlv, stopv, retry_count, loadv,
                    busv, timev, ready_rc, load_rc, ret, errno, histv >>

\* A loop that ends when the adapter model's time has reached the target.
GwContinueBefore(mt, t) == mt < t

\* model_gw_sync: the loop goes on while the adapter model's time has not
\* passed the target.
GwContinue(mt, t) == mt <= t

\* A model_gw_sync that returns only the negative results of a step.
GwStepFailedNegative(rc) == rc < 0

\* model_gw_sync: "if (rc) return rc;" after modelc_sync.
GwStepFailed(rc) == rc # 0

\* A loop that also goes on after a step that timed out.
RunContinueOnTimeout(rc) == rc = 0 \/ rc = E.ETIME

\* controller_run: the loop goes on after a step returned rc.
RunContinue(rc) == rc = 0

\* controller_step has returned to controller_run, modelc_sync or (through
\* modelc_sync) model_gw_sync; its locals and those of step_model are gone.
\* controller_run leaves its loop with the rc that ended it.
StepReturn ==
    /\ pc = "step_ret"
    /\ \/ /\ call.fn = "run"
          /\ IF RunContinue(step_rc)
                THEN pc' = "run_check" /\ ready_rc' = 0 /\ step_rc' = 0
                ELSE pc' = "run_ret" /\ UNCHANGED << ready_rc, step_rc >>
          /\ UNCHANGED << ret, errno, ticks, call >>
       \/ /\ call.fn = "sync"
          /\ pc' = "idle"
          /\ ret' = step_rc
          /\ ticks' = 0
          /\ call' = NoCall
          /\ ready_rc' = 0
          /\ step_rc' = 0
          /\ UNCHANGED errno
       \/ /\ call.fn = "gw_sync"
          /\ IF GwStepFailed(step_rc)
                THEN pc' = "idle" /\ ret' = step_rc /\ ticks' = 0 /\ call' = NoCall
                     /\ UNCHANGED errno
                ELSE IF GwContinue(model_time[1], call.t)
                     THEN pc' = "step_enter" /\ errno' = 0
                          /\ UNCHANGED << ret, ticks, call >>
                     ELSE pc' = "idle" /\ ret' = 0 /\ ticks' = 0 /\ call' = NoCall
                          /\ UNCHANGED errno
          /\ ready_rc' = 0
          /\ step_rc' = 0
    /\ step_data' = [i \in AllInst |-> [model_time |-> 0, stop_time |-> 0]]
    /\ handler_times' = {}
    /\ reported' = 0
    /\ tickLog' = << >>
    /\ hres' = {}
    /\ invoked' = {}
    /\ UNCHANGED << uidv, datav, cfgv, ctlv, stopv, retry_count, idx, loadv,
                    busv, model_time, stop_time, load_rc, logv >>

(***************************************************************************)
(* modelc_sync, model_gw_sync                                              *)
(***************************************************************************)
CallModelcSync ==
    /\ Enter("sync", FALSE, 0)
    /\ errno' = 0
    /\ pc' = "step_enter"
    /\ UNCHANGED << uidv, datav, cfgv, stopv, retry_count, idx, loadv, busv, timev,
                    ready_rc, step_rc, load_rc, histv >>

CallModelGwSync(t) ==
    /\ gw
    /\ Enter("gw_sync", FALSE, t)
    /\ pc' = "gw_check"
    /\ UNCHANGED << uidv, datav, cfgv, stopv, retry_count, idx, loadv, busv, timev,
                    ready_rc, step_rc, load_rc, errno, histv >>

\* A test that finds the gateway behind when it is ahead.
GatewayAhead(t, mt) == mt < t

\* model_gw_sync: the gateway is behind when its time is before the adapter
\* model's time.
GatewayBehind(t, mt) == t < mt

\* The head of model_gw_sync and the first test of its loop.
GwCheck ==
    /\ pc = "gw_check"
    /\ IF GatewayBehind(call.t, model_time[1])
          THEN pc' = "idle" /\ ret' = E.E_GATEWAYBEHIND /\ call' = NoCall
               /\ UNCHANGED errno
          ELSE IF GwContinue(model_time[1], call.t)
               THEN pc' = "step_enter" /\ errno' = 0 /\ UNCHANGED << ret, call >>
               ELSE pc' = "idle" /\ ret' = 0 /\ call' = NoCall /\ UNCHANGED errno
    /\ UNCHANGED << uidv, datav, cfgv, ctlv, stopv, retry_count, idx, loadv,
                    busv, timev, ready_rc, step_rc, load_rc, histv >>

(***************************************************************************)
(* modelc_exit: controller_exit, _destroy_model_instances                  *)
(***************************************************************************)
CallModelcExit ==
    /\ Enter("exit", FALSE, 0)
    /\ IF controller = "null"
          THEN pc' = "exit_free" /\ UNCHANGED idx
          ELSE pc' = "exit_loop" /\ idx' = 1
    /\ UNCHANGED << uidv, datav, cfgv, stopv, retry_count, loadv, busv, timev,
                    ready_rc, step_rc, load_rc, errno, histv >>

\* A loop that is left when a model_exit_func reports failure.
ExitStopsOnFailure(rc) == rc = 0

\* controller_exit: after a model_exit_func returned rc the loop goes to the
\* next instance; a failure is logged.
ExitGoesOn(rc) == TRUE

\* One pass of the loop of controller_exit: the instance's model_exit_func,
\* when it has one, is called; a failure sets errno and the loop goes on.
ExitModel ==
    /\ pc = "exit_loop"
    /\ idx \in Insts
    /\ \E rc \in {0, E.EINVAL} :
         /\ IF exit_func[idx]
               THEN /\ destroyed' = [destroyed EXCEPT ![idx] = TRUE]
                    /\ errno' = rc
                    /\ exitLog' = Append(exitLog, << "exit", idx, rc >>)
               ELSE /\ rc = 0
                    /\ UNCHANGED << destroyed, errno, exitLog >>
         /\ IF ExitGoesOn(rc) /\ idx + 1 \in Insts
               THEN pc' = "exit_loop" /\ idx' = idx + 1
               ELSE pc' = "exit_adapter" /\ idx' = 0
    /\ UNCHANGED << uidv, datav, call, cfgv, ctlv, stopv, retry_count, vtable,
                    setup_func, exit_func, loaded, created, create_ok,
                    model_functions, nreg, reg_rc, busv, timev, ready_rc,
                    step_rc, load_rc, ret, tickv, busLog >>

\* controller_exit after the loop: adapter_exit, when there is an adapter.
AdapterExit ==
    /\ pc = "exit_adapter"
    /\ IF adapter = "null"
          THEN UNCHANGED << adapter, exitLog >>
          ELSE /\ adapter' = "exited"
               /\ exitLog' = Append(exitLog, << "adapter_exit" >>)
    /\ pc' = "exit_destroy"
    /\ UNCHANGED << uidv, datav, call, cfgv, controller, mem, stale, stopv, retry_count,
                    idx, loadv, busv, timev, rcv, tickv, busLog >>

\* The tail of controller_exit: controller_destroy.
ControllerExitTail ==
    /\ pc = "exit_destroy"
    /\ controller' = ControllerDestroyed(controller)
    /\ exitLog' = Append(exitLog, << "destroy" >>)
    /\ pc' = "exit_free"
    /\ adapter_models' = {}
    /\ UNCHANGED << sim_uid, endpoint_uid, inst_uid, datav, call, cfgv,
                    adapter, mem, stale, stopv, retry_count, idx,
                    loadv, busv, timev, rcv, tickv, busLog >>

\* _destroy_model_instances: every instance's model functions, controller
\* model and adapter model are destroyed and the list is freed.  What a later
\* read of the freed model-function maps finds is not defined: the old
\* entries or none.
DestroyModelInstances ==
    /\ pc = "exit_free"
    /\ mem' = "freed"
    /\ \E kept \in BOOLEAN :
         model_functions' = IF kept THEN model_functions
                                     ELSE [i \in AllInst |-> {}]
    /\ pc' = "idle"
    /\ call' = NoCall
    /\ exitLog' = << >>
    /\ UNCHANGED << uidv, datav, cfgv, controller, adapter, stale, stopv,
                    retry_count, idx, vtable, setup_func, exit_func, loaded,
                    created, create_ok, destroyed, nreg, reg_rc, busv, timev,
                    rcv, tickv, busLog >>

(***************************************************************************)
(* The specification                                                       *)
(***************************************************************************)
Next ==
    \/ ModelcShutdown
    \/ StopAfterFree
    \/ UseAfterFree
    \/ ModelcConfigure
    \/ \E async \in BOOLEAN : CallModelcRun(async)
    \/ SetupUids
    \/ ControllerInit
    \/ LoadModelsEntry
    \/ LoadModel
    \/ CreateBegin
    \/ RegisterModelFunction
    \/ CreateReturn
    \/ AfterLoadModels
    \/ BusStart
    \/ BusConnect
    \/ BusRegister
    \/ BusReturn
    \/ RunCheck
    \/ RunReturn
    \/ StepM2A
    \/ AdapterReady
    \/ StepA2M
    \/ StepModel
    \/ StepEnd
    \/ StepReturn
    \/ CallModelcSync
    \/ \E t \in SyncTimes : CallModelGwSync(t)
    \/ GwCheck
    \/ CallModelcExit
    \/ ExitModel
    \/ AdapterExit
    \/ ControllerExitTail
    \/ DestroyModelInstances

Spec == Init /\ [][Next]_vars

\* _create_endpoint on its own, pass by pass, with modelc_shutdown at any time.
NextEndpoint ==
    \/ EndpointBegin
    \/ EndpointAttempt
    \/ ModelcShutdown

SpecEndpoint == Init /\ [][NextEndpoint]_vars

(***************************************************************************)
(* The UID loop of modelc_run and the binding of the adapter models on its *)
(* own: from every configuration of UIDs, up to the end of                 *)
(* controller_load_models.                                                 *)
(***************************************************************************)
\* UIDs a configuration, an instance or an endpoint comes with: none (0),
\* small ones, one that another instance is given by the loop, and
\* 2^32 - 10000.
UidInputs == { U32(0), U32(42), U32(10042), << 65535, 55536 >> }

\* modelc_run after _create_endpoint: modelc_configure has put the
\* configured UIDs into sim->uid and the instances.
InitUid ==
    /\ pc = "uid"
    /\ call = [fn |-> "run", async |-> FALSE, t |-> 0]
    /\ args \in { a \in Args : ~ConfigureFatal(a) }
    /\ Fresh
    /\ sim_uid \in UidInputs
    /\ endpoint_uid \in UidInputs
    /\ inst_uid \in { u \in [AllInst -> UidInputs] :
                         \A i \in AllInst \ (1..args.ninst) : u[i] = U32(0) }
    /\ adapter_models = {}
    /\ signals = << >>
    /\ channels = << >>

NextUid ==
    \/ SetupUids
    \/ ControllerInit
    \/ LoadModelsEntry
    \/ LoadModel
    \/ CreateBegin
    \/ RegisterModelFunction
    \/ CreateReturn

SpecUid == InitUid /\ [][NextUid]_vars

(***************************************************************************)
(* The ticks of a run whose models have channels: controller_run from its  *)
(* first tick on, for a few layouts of channels and signals.               *)
(***************************************************************************)
NoSignal == [val |-> 0, final_val |-> 0, bin |-> << >>, bin_buffer_size |-> 0]

\* A channel of model function mf of instance mi over the signals sm, with
\* a scalar array (d) and a binary array (b) or without.
Mfc(mi, mf, sm, d, b) ==
    [mi |-> mi, mf |-> mf, sm |-> sm,
     signal_value_double |-> IF d THEN [si \in 1..Len(sm) |-> 0] ELSE << >>,
     signal_value_binary |-> IF b THEN [si \in 1..Len(sm) |-> << >>] ELSE << >>,
     signal_value_binary_buffer_size |->
         IF b THEN [si \in 1..Len(sm) |-> 0] ELSE << >>]

\* Two instances each time.  The first has one channel of one signal and the
\* second none; the first has two model functions with a channel each on the
\* same signal; the first has a scalar channel of two signals and the second
\* a binary channel.
Layouts ==
    { [args |-> [ninst |-> 2, step_size |-> 2, end_time |-> 5],
       mfs |-> << { << "f", 1 >> }, {} >>,
       channels |-> << Mfc(1, << "f", 1 >>, << 1 >>, TRUE, TRUE) >>,
       signals |-> << NoSignal >>],
      [args |-> [ninst |-> 2, step_size |-> 2, end_time |-> 5],
       mfs |-> << { << "f", 1 >>, << "g", 2 >> }, {} >>,
       channels |-> << Mfc(1, << "f", 1 >>, << 1 >>, TRUE, TRUE),
                       Mfc(1, << "g", 2 >>, << 1 >>, FALSE, TRUE) >>,
       signals |-> << NoSignal >>],
      [args |-> [ninst |-> 2, step_size |-> 2, end_time |-> 5],
       mfs |-> << { << "f", 1 >> }, { << "f", 1 >> } >>,
       channels |-> << Mfc(1, << "f", 1 >>, << 1, 2 >>, TRUE, FALSE),
                       Mfc(2, << "f", 1 >>, << 3 >>, FALSE, TRUE) >>,
       signals |-> << NoSignal, NoSignal, NoSignal >>] }

\* controller_run is about to call controller_step for the first time: the
\* instances of layout l are loaded and created, the bus is ready.
Running(l) ==
    LET in(i) == i <= l.args.ninst
    IN  /\ pc = "step_enter"
        /\ call = [fn |-> "run", async |-> FALSE, t |-> 0]
        /\ args = l.args
        /\ variant = "loader"
        /\ controller = "live"
        /\ adapter = "live"
        /\ stop_request = FALSE
        /\ mc_stop_request = FALSE
        /\ interrupted = FALSE
        /\ mem = "live"
        /\ retry_count = 0
        /\ idx = 0
        /\ vtable = [i \in AllInst |->
                         IF in(i) THEN {"create", "step", "destroy"} ELSE {}]
        /\ setup_func = [i \in AllInst |-> FALSE]
        /\ exit_func = [i \in AllInst |-> FALSE]
        /\ loaded = [i \in AllInst |-> in(i)]
        /\ created = [i \in AllInst |-> IF in(i) THEN 1 ELSE 0]
        /\ create_ok = [i \in AllInst |-> in(i)]
        /\ destroyed = [i \in AllInst |-> FALSE]
        /\ model_functions = l.mfs
        /\ nreg = 0
        /\ reg_rc = 0
        /\ connected = TRUE
        /\ registered = TRUE
        /\ gw = FALSE
        /\ model_time = [i \in AllInst |-> 0]
        /\ stop_time = [i \in AllInst |-> 0]
        /\ step_data = [i \in AllInst |-> [model_time |-> 0, stop_time |-> 0]]
        /\ handler_times = {}
        /\ reported = 0
        /\ ready_rc = 0
        /\ step_rc = 0
        /\ load_rc = 0
        /\ ret = 0
        /\ errno = 0
        /\ ticks = 0
        /\ tickLog = << >>
        /\ hres = {}
        /\ invoked = {}
        /\ exitLog = << >>
        /\ busLog = << >>
        /\ stop_phase = "none"
        /\ stale = 0
        /\ sim_uid = U32(42)
        /\ endpoint_uid = U32(42)
        /\ inst_uid = [i \in AllInst |->
                           IF in(i) THEN U32(42 + (i - 1) * 10000) ELSE U32(0)]
        /\ adapter_models = { << inst_uid[i], i >> : i \in 1..l.args.ninst }

InitMarshal ==
    \E l \in Layouts :
        /\ Running(l)
        /\ signals = l.signals
        /\ channels = l.channels

NextMarshal ==
    \/ StepM2A
    \/ AdapterReady
    \/ StepA2M
    \/ StepModel
    \/ StepEnd
    \/ StepReturn
    \/ RunCheck
    \/ RunReturn

SpecMarshal == InitMarshal /\ [][NextMarshal]_vars

(***************************************************************************)
(* Properties                                                              *)
(***************************************************************************)
\* A step of the model in which step handlers of the instance at idx are
\* invoked: step_model runs and the instance has model functions.
HandlerStep ==
    /\ pc = "step_models"
    /\ tickLog' # tickLog
    /\ model_functions[idx] # {}

\* C1: in every tick of controller_step the events occur in the order
\* MODEL->ADAPTER marshaling of all instances, adapter ready, ADAPTER->MODEL
\* marshaling of all instances, step handlers: ready comes after the
\* MODEL->ADAPTER marshaling of every instance, ADAPTER->MODEL marshaling
\* after ready, each instance's stepping after the ADAPTER->MODEL marshaling
\* of every instance, and no marshaling after the first stepping.
C1_TickOrder ==
    LET Rank(e) == CASE e[1] = "m2a" -> 1
                     [] e[1] = "ready" -> 2
                     [] e[1] = "a2m" -> 3
                     [] OTHER -> 4
        Before(k, evs) == \A e \in evs : \E j \in 1..(k - 1) : tickLog[j] = e
    IN  \A k \in DOMAIN tickLog :
          /\ \A j \in 1..(k - 1) : Rank(tickLog[j]) <= Rank(tickLog[k])
          /\ tickLog[k][1] = "ready" =>
                 Before(k, { << "m2a", i >> : i \in Insts })
          /\ tickLog[k][1] = "a2m" => Before(k, { << "ready" >> })
          /\ tickLog[k][1] = "step" =>
                 Before(k, { << "a2m", i >> : i \in Insts })

\* A complete tick of two instances: both marshalings, ready, both steppings.
C1_FullTick ==
    /\ pc = "step_ret"
    /\ args.ninst = 2
    /\ Len(tickLog) = 7
    /\ tickLog[7] = << "step", 2 >>

\* C2: after every controller_step that returns successfully, each
\* instance's model_time equals the stop_time the instance had when its
\* handlers were invoked, and the model time the step reports (that of the
\* last instance stepped) equals that value.
C2_ModelTimeIsStopTime ==
    (pc = "step_ret" /\ ready_rc = 0 /\ step_rc \in {0, 1}) =>
        /\ \A i \in Insts : model_time[i] = step_data[i].stop_time
        /\ reported = step_data[args.ninst].stop_time

\* The second tick of two instances has returned successfully.
C2_SteppedTwice ==
    /\ pc = "step_ret"
    /\ ready_rc = 0
    /\ args.ninst = 2
    /\ step_data[2] = [model_time |-> 2, stop_time |-> 4]
    /\ model_time[2] = 4
    /\ reported = 4

C4_RunEnded ==
    /\ pc = "run_ret"
    /\ args = [ninst |-> 1, step_size |-> 2, end_time |-> 10]
    /\ ~stop_request
    /\ ready_rc = 0
    /\ model_time[1] = ticks * args.step_size

\* C4 (as amended): that run performs exactly 6 ticks, the last one ending
\* with the terminal value 1, the final model_time is 0.6 and modelc_run
\* returns 0.
C4_RunSixTicks ==
    C4_RunEnded =>
        /\ step_rc = 1
        /\ ticks = 6
        /\ model_time[1] = 12
        /\ ModelcRunResult(errno) = 0

\* C4 as stated: that run performs exactly 5 ticks and the final model_time
\* is 0.5.
C4_RunFiveTicks ==
    C4_RunEnded =>
        /\ ticks = 5
        /\ model_time[1] = 10
        /\ ModelcRunResult(errno) = 0

\* The run has ended after its sixth tick.
C4_SixthTickEndsRun ==
    /\ C4_RunEnded
    /\ ticks = 6
    /\ model_time[1] = 12

\* C5: when stop() is called between two ticks of controller_run (after one
\* controller_step returned 0, before the next begins), no step handler of
\* any instance is invoked after the call and the run returns ECANCELED.
C5_StopBetweenTicksCancels ==
    [][ (call.fn = "run"
            /\ stop_phase \in {"between_before_check", "between_after_check"}) =>
          /\ ~HandlerStep
          /\ (pc = "run_ret" /\ pc' = "idle") => ret' = E.ECANCELED ]_vars

\* C6: when stop() is called while adapter ready is blocked inside a tick of
\* controller_run, then, whatever ready returns, no step handler of that
\* tick is invoked and the run returns ECANCELED.
C6_StopInReadyCancels ==
    [][ (call.fn = "run" /\ stop_phase = "in_ready") =>
          /\ ~HandlerStep
          /\ (pc = "run_ret" /\ pc' = "idle") => ret' = E.ECANCELED ]_vars

\* C7: when controller_load_models leaves its loop at an instance whose
\* interface has neither create nor step (loader.c; in controller.c: no
\* setup function), it returns non-zero, and create was invoked neither for
\* that instance nor for any instance after it.
C7_IncompleteInterfaceFails ==
    (/\ pc = "load_ret"
     /\ idx \in Insts
     /\ loaded[idx]
     /\ IF variant = "loader" THEN InterfaceIncomplete(vtable[idx])
                              ELSE ~setup_func[idx]) =>
        /\ load_rc # 0
        /\ \A j \in Insts : j >= idx => created[j] = 0

\* C8: controller_load_models works in list order and stops at the first
\* failure: an instance is loaded or created only when every instance before
\* it was loaded and created with success, create is invoked only for an
\* instance whose load succeeded, and when the load (the library open) or the
\* create of the instance at which the loop was left failed, the result is
\* non-zero.
C8_LoadStopsAtFirstFailure ==
    /\ \A i \in Insts : created[i] > 0 => loaded[i]
    /\ \A i, j \in Insts :
          (i < j /\ (loaded[j] \/ created[j] > 0)) => (loaded[i] /\ create_ok[i])
    /\ pc \in {"load", "create", "in_create"} =>
          \A i \in Insts : i < idx => (loaded[i] /\ create_ok[i])
    /\ (/\ pc = "load_ret"
        /\ idx \in Insts
        /\ ~loaded[idx] \/ (created[idx] > 0 /\ ~create_ok[idx])) =>
          load_rc # 0

\* The create of the first of two instances failed: the loop was left there.
C8_FirstCreateFailed ==
    /\ pc = "load_ret"
    /\ args.ninst = 2
    /\ idx = 1
    /\ created[1] = 1
    /\ ~create_ok[1]
    /\ load_rc # 0
    /\ ~loaded[2]
    /\ created[2] = 0

\* C9: under any sequence of modelc_run, modelc_sync, model_gw_sync and
\* modelc_exit calls, step handlers of an instance are invoked only after
\* its create returned with success and never after its destroy was invoked,
\* and create is invoked at most once for an instance.
C9_Lifecycle ==
    [][ /\ HandlerStep => (create_ok[idx] /\ ~destroyed[idx])
        /\ \A i \in AllInst : created'[i] <= 1 ]_vars

\* C10: when adapter ready returns non-zero in a tick, controller_step
\* returns that value at once: no ADAPTER->MODEL marshaling and no stepping
\* is in the tick, no model_time has changed when the step has returned,
\* controller_run leaves its loop, and modelc_sync and model_gw_sync return
\* the value.  (A stop that faults on a freed controller ends the process
\* instead.)
C10_ReadyErrorPropagates ==
    [][ pc' # "crashed" =>
        /\ (pc = "step_ready" /\ pc' # pc /\ ready_rc' # 0) =>
              /\ pc' = "step_ret"
              /\ step_rc' = ready_rc'
              /\ model_time' = model_time
              /\ \A k \in DOMAIN tickLog' : tickLog'[k][1] \in {"m2a", "ready"}
        /\ (pc = "step_ret" /\ pc' # pc /\ ready_rc # 0) =>
              /\ model_time' = model_time
              /\ tickLog' = << >>
              /\ IF call.fn = "run" THEN pc' = "run_ret"
                 ELSE pc' = "idle" /\ ret' = ready_rc
        /\ (pc = "run_ret" /\ pc' # pc) => pc' = "idle" ]_vars

\* The second tick of a run ended with ready timing out, and controller_run
\* has left its loop.
C10_ReadyTimedOutInRun ==
    /\ pc = "run_ret"
    /\ ready_rc = E.ETIME
    /\ step_rc = E.ETIME
    /\ ticks = 2
    /\ model_time[1] = 2


C12_HandlerFailureNotFatal ==
    (pc = "step_ret" /\ ready_rc = 0 /\ \E r \in hres : r # 0) =>
        /\ \A i \in Insts : \A f \in model_functions[i] :
               \E e \in invoked : e[1] = i /\ e[2] = f
        /\ \A i \in Insts :
               /\ \E k \in DOMAIN tickLog : tickLog[k] = << "step", i >>
               /\ model_time[i] = step_data[i].stop_time
               /\ model_time[i] = stop_time[i]
        /\ step_rc = EndCondition(args.end_time, reported)

\* A tick of two instances with two model functions each, in which handlers
\* returned -1 and 1, has called all four and returned 0.
C12_AllCalledDespiteFailures ==
    /\ pc = "step_ret"
    /\ args.ninst = 2
    /\ hres = {-1, 1}
    /\ Cardinality(invoked) = 4
    /\ step_rc = 0


\* C13: model_gw_sync(gw, t) with t before the adapter model's time returns
\* E_GATEWAYBEHIND at once: no tick is begun (no marshaling, no ready, no
\* handler), and the model times and stop times are unchanged.  The call
\* with t = -0.1 right after setup, at model time 0, is one such call.
C13_BehindReturnsWithoutStep ==
    [][ (pc = "gw_check" /\ ~Freed /\ call.t < model_time[1] /\ pc' # pc) =>
           /\ pc' = "idle"
           /\ ret' = E.E_GATEWAYBEHIND
           /\ UNCHANGED << timev, histv >>
           /\ ticks = 0 /\ tickLog = << >> /\ invoked = {} ]_vars

\* model_gw_sync(gw, -0.1) has returned E_GATEWAYBEHIND before any step of
\* the gateway.
C13_BehindAfterSetup ==
    /\ pc = "idle"
    /\ gw
    /\ ret = E.E_GATEWAYBEHIND
    /\ model_time[1] = 0
    /\ stop_time[1] = 0

C15_SyncReturnsFirstFailure ==
    [][ (/\ pc = "step_ret" /\ call.fn = "gw_sync" /\ step_rc # 0
         /\ pc' \notin {pc, "crashed"}) =>
           /\ pc' = "idle"
           /\ ret' = step_rc
           /\ model_time' = model_time ]_vars

\* A step of model_gw_sync has returned 1 for the end time while the model
\* time has not passed the requested time.
C15_TerminalStepInSync ==
    /\ pc = "step_ret"
    /\ call.fn = "gw_sync"
    /\ step_rc = 1
    /\ ready_rc = 0
    /\ model_time[1] <= call.t


\* C16 as stated: controller_destroy clears the process-wide controller, so
\* at any time the controller is either not set or set and alive; it never
\* refers to freed memory.
C16_DestroyClearsController == controller \in {"null", "live"}

\* C17: a controller_exit on a live controller calls the model_exit_func of
\* every instance that has one, in the order of the instance list and
\* whatever the earlier ones returned, and of no other instance; it calls
\* adapter_exit only after the last instance has been visited, and
\* controller_destroy only after adapter_exit.
C17_ExitOrder ==
    LET exits == SelectSeq(exitLog, LAMBDA e : e[1] = "exit")
        Exited == { exits[k][2] : k \in DOMAIN exits }
    IN  (call.fn = "exit" /\ stale = 0 /\ controller # "null") =>
          /\ \A k \in DOMAIN exits : \A j \in 1..(k - 1) : exits[j][2] < exits[k][2]
          /\ \A k \in DOMAIN exits : exitLog[k] = exits[k]
          /\ \A i \in AllInst : destroyed[i] <=> i \in Exited
          /\ pc = "exit_loop" =>
                /\ exitLog = exits
                /\ Exited = { i \in Insts : i < idx /\ exit_func[i] }
                /\ controller = "live" /\ adapter = "live"
          /\ pc \in {"exit_adapter", "exit_destroy", "exit_free"} =>
                Exited = { i \in Insts : exit_func[i] }
          /\ pc = "exit_adapter" =>
                exitLog = exits /\ controller = "live" /\ adapter = "live"
          /\ pc = "exit_destroy" =>
                /\ exitLog = exits \o << << "adapter_exit" >> >>
                /\ controller = "live" /\ adapter = "exited"
          /\ pc = "exit_free" =>
                /\ exitLog = exits \o << << "adapter_exit" >>, << "destroy" >> >>
                /\ controller # "live"

\* The model_exit_func of the first of two instances reported failure, that
\* of the second was called after it, then adapter_exit, then
\* controller_destroy.
C17_ExitedAfterFailure ==
    /\ pc = "exit_free"
    /\ stale = 0
    /\ exitLog = << << "exit", 1, E.EINVAL >>, << "exit", 2, 0 >>,
                    << "adapter_exit" >>, << "destroy" >> >>

\* C18: in controller_bus_ready the start hook of the endpoint comes before
\* adapter_connect, which is called with 5 retries, and adapter_register
\* after it; when stop_request is set at the return of adapter_connect,
\* adapter_register is not called, and the controller_run that made the call
\* begins no tick and leaves its loop with errno ECANCELED.
C18_BusReadyOrder ==
    [][ LET Rank(e) == CASE e[1] = "start" -> 1
                         [] e[1] = "connect" -> 2
                         [] OTHER -> 3
        IN  /\ \A k \in DOMAIN busLog :
                 /\ \A j \in 1..(k - 1) : Rank(busLog[j]) < Rank(busLog[k])
                 /\ busLog[k][1] = "connect" => busLog[k][2] = 5
                 /\ busLog[k][1] = "register" =>
                        \E j \in 1..(k - 1) : busLog[j][1] = "connect"
            /\ (pc = "bus_check" /\ pc' \notin {pc, "crashed"}) =>
                 /\ busLog[Len(busLog)][1] = "connect"
                 /\ pc' = "bus_ret"
                 /\ IF stop_request
                       THEN busLog' = busLog /\ registered' = registered
                       ELSE busLog' = Append(busLog, << "register" >>)
                            /\ registered'
            /\ (/\ call.fn = "run" /\ connected /\ ~registered
                /\ pc \in {"bus_ret", "run_check", "run_ret", "step_enter",
                            "step_ready", "step_a2m", "step_models",
                            "step_end", "step_ret"}) =>
                 /\ ticks = 0
                 /\ pc \in {"bus_ret", "run_check", "run_ret"}
                 /\ pc' # pc => pc' \in {"run_check", "run_ret", "idle", "crashed"}
                 /\ pc = "run_ret" => errno = E.ECANCELED ]_vars

\* A controller_run whose controller_bus_ready found stop_request set after
\* adapter_connect has left its loop with ECANCELED before any tick.
C18_StoppedBeforeRegister ==
    /\ pc = "run_ret"
    /\ call.fn = "run"
    /\ connected
    /\ ~registered
    /\ ticks = 0
    /\ errno = E.ECANCELED


\* C19: a call of controller_register_model_function either registers a
\* name that had no entry in the instance's map (returns 0; the map gains
\* the entry of that name and keeps every other entry), or fails with -1
\* leaving the map as it was; a call with a name that has an entry fails
\* with -1 and errno EEXIST, and the function bound to the name stays bound.
\* No name has two entries.
C19_RegisterOnce ==
    [][ /\ \A i \in AllInst : \A m, n \in model_functions[i] :
               m[1] = n[1] => m = n
        /\ (pc = "in_create" /\ nreg' = nreg + 1) =>
             LET old == model_functions[idx]
                 new == model_functions'[idx]
             IN  /\ \A i \in AllInst \ {idx} :
                        model_functions'[i] = model_functions[i]
                 /\ \/ /\ reg_rc' = 0
                       /\ \E name \in MFNames :
                            /\ ~\E m \in old : m[1] = name
                            /\ \E fn \in 1..MaxReg : new = old \cup { << name, fn >> }
                    \/ /\ reg_rc' = -1
                       /\ errno' \in {E.EEXIST, E.EINVAL}
                       /\ new = old
                 /\ (\A name \in MFNames : \E m \in old : m[1] = name) =>
                        reg_rc' = -1 /\ errno' = E.EEXIST /\ new = old
                 /\ (reg_rc' = -1 /\ errno' = E.EEXIST) => old # {} ]_vars

\* The second registration of a create used the name of the first and
\* failed with EEXIST: the first function is still the one bound.
C19_DuplicateRejected ==
    /\ pc = "in_create"
    /\ nreg = 2
    /\ reg_rc = -1
    /\ errno = E.EEXIST
    /\ model_functions[idx] = { << "f", 1 >> }


\* C20 as stated: a stop (modelc_shutdown, controller_stop) changes nothing
\* but the stop flags and the interrupt of the adapter: the caller goes on
\* where it was and no model time, stop time, model-function map or
\* instance state changes; on a controller that is set and alive it sets
\* stop_request and interrupts the adapter; when no such controller exists
\* it leaves stop_request and the adapter alone; a stop after a stop
\* changes nothing.
C20_StopOnlySetsFlag ==
    [][ (\/ mc_stop_request' # mc_stop_request
         \/ interrupted' # interrupted
         \/ (stop_request' /\ ~stop_request)) =>
           /\ UNCHANGED << pc, call, cfgv, ctlv, retry_count, idx, loadv,
                           busv, timev, rcv, histv >>
           /\ mc_stop_request'
           /\ IF controller = "live"
                 THEN stop_request' /\ interrupted'
                 ELSE UNCHANGED << stop_request, interrupted >>
           /\ (stop_request /\ interrupted /\ mc_stop_request) =>
                 UNCHANGED << stop_request, interrupted, mc_stop_request >> ]_vars


\* C21 as amended: the UID loop of modelc_run leaves sim->uid = U, the
\* configured value or, when that is 0, the endpoint's UID; when every
\* instance had UID 0, the instance at position i has the UID
\* (U + 10000*i) mod 2^32; an instance whose UID was non-zero keeps it.
C21_UidsAssigned ==
    [][ (pc = "uid" /\ pc' = "init") =>
          LET U == sim_uid'
              Wrapped(c) == << (U[1] + ((U[2] + c) \div 65536)) % 65536,
                               (U[2] + c) % 65536 >>
          IN  /\ U = (IF sim_uid = << 0, 0 >> THEN endpoint_uid ELSE sim_uid)
              /\ (\A i \in Insts : inst_uid[i] = << 0, 0 >>) =>
                    \A i \in Insts : inst_uid'[i] = Wrapped(10000 * (i - 1))
              /\ \A i \in Insts : inst_uid[i] # << 0, 0 >> =>
                    inst_uid'[i] = inst_uid[i] ]_vars

\* C21 as stated: when every instance had UID 0, the instance at position i
\* has the UID U + 10000*i, the sum of the two numbers (the pair below names
\* the number high * 2^16 + low); an instance whose UID was non-zero keeps it.
C21_UidsArePlainSums ==
    [][ (pc = "uid" /\ pc' = "init") =>
          LET U == sim_uid'
              Sum(c) == << U[1] + ((U[2] + c) \div 65536), (U[2] + c) % 65536 >>
          IN  /\ U = (IF sim_uid = << 0, 0 >> THEN endpoint_uid ELSE sim_uid)
              /\ (\A i \in Insts : inst_uid[i] = << 0, 0 >>) =>
                    \A i \in Insts : inst_uid'[i] = Sum(10000 * (i - 1))
              /\ \A i \in Insts : inst_uid[i] # << 0, 0 >> =>
                    inst_uid'[i] = inst_uid[i] ]_vars

\* The loop has run on two instances without UIDs and a simulation without
\* a configured UID: they have the endpoint's 10042 and 20042.
C21_TwoGenerated ==
    /\ pc = "init"
    /\ args.ninst = 2
    /\ sim_uid = << 0, 10042 >>
    /\ endpoint_uid = << 0, 10042 >>
    /\ inst_uid[1] = << 0, 10042 >>
    /\ inst_uid[2] = << 0, 20042 >>


\* C30: after the UID loop of modelc_run the UIDs of the instances are
\* pairwise distinct, whatever UIDs were configured, and binding the
\* adapter model of an instance in controller_load_models takes no other
\* instance's binding away.
C30_UidsDistinct ==
    [][ /\ (pc = "uid" /\ pc' = "init") =>
              \A i, j \in Insts : i # j => inst_uid'[i] # inst_uid'[j]
        /\ (pc = "load" /\ pc' # "load") =>
              \A m \in adapter_models : m \in adapter_models' ]_vars


\* C22: modelc_run in synchronous mode returns 0 when the run loop was ended
\* by the end condition (controller_step returned 1), ECANCELED when it was
\* ended by the stop request at the head of the loop, and a positive value
\* other than ECANCELED when it was ended by a non-zero result of
\* adapter_ready.
C22_RunResult ==
    [][ (pc = "run_ret" /\ pc' = "idle") =>
          /\ (ready_rc = 0 /\ step_rc = 1) => ret' = 0
          /\ (ready_rc = 0 /\ step_rc = 0 /\ controller # "null") =>
                ret' = E.ECANCELED
          /\ ready_rc # 0 => (ret' > 0 /\ ret' # E.ECANCELED) ]_vars


\* C23: a simulation with end_time = 0 and a positive step_size is accepted
\* by modelc_configure; no tick of it returns 1 without a step failure,
\* whatever the model time; and controller_run leaves its loop only upon a
\* stop request or a non-zero result of controller_step.
C23_OpenEnded ==
    [][ (args.end_time = 0 /\ args.step_size > 0) =>
          /\ (pc = "start" /\ pc' # pc) => pc' = "idle"
          /\ (pc = "step_end" /\ pc' = "step_ret" /\ step_rc = 0) => step_rc' = 0
          /\ (pc \in {"run_check", "step_ret"} /\ pc' = "run_ret") =>
                (stop_request \/ step_rc # 0) ]_vars


\* ---------------------------------------------------------------------------
\* Marshaling claims, checked under SpecMarshal.

\* controller_step is in its model-to-adapter pass / adapter-to-model pass.
InM2A == pc = "step_enter" /\ pc' = "step_ready"

InA2M == pc = "step_a2m" /\ pc' = "step_models"

\* The (channel, slot) pairs with a scalar value.
DoubleSlots ==
    { << c, si >> \in (1..Len(channels)) \X (1..3) :
        HasDouble(channels[c]) /\ si <= Len(channels[c].sm) }

\* The (channel, slot) pairs with a binary buffer.
BinarySlots ==
    { << c, si >> \in (1..Len(channels)) \X (1..3) :
        HasBinary(channels[c]) /\ si <= Len(channels[c].sm) }

\* C24: a scalar a model wrote reaches only final_val at the next
\* model-to-adapter pass (val is left alone), and the adapter-to-model pass
\* hands the model the signal's val, whatever the model wrote and whatever
\* final_val holds: the model reads its own write back only when the bus
\* delivers it as val.
C24_OwnWriteNotReadBack ==
    [][\A x \in DoubleSlots :
          LET mfc == channels[x[1]]
              s == mfc.sm[x[2]]
          IN  /\ InM2A =>
                    /\ signals'[s].final_val = mfc.signal_value_double[x[2]]
                    /\ signals'[s].val = signals[s].val
              /\ InA2M =>
                    channels'[x[1]].signal_value_double[x[2]] = signals[s].val
      ]_vars

\* Second tick, the model functions are about to run: the model wrote 7 in
\* the first tick (it reached final_val), the bus delivered 0, and the model
\* is handed 0.
C24_WroteSevenReadsZero ==
    /\ pc = "step_models"
    /\ ticks = 2
    /\ Len(signals) = 1
    /\ signals[1].final_val = 7
    /\ signals[1].val = 0
    /\ channels[1].signal_value_double = << 0 >>

\* C25: scalar marshaling is a copy.  The model-to-adapter pass changes, of
\* the scalars, only final_val: every signal's val and every model function's
\* scalar array stay as they were.  The adapter-to-model pass changes only
\* the model functions' scalar arrays: every signal's val and final_val stay.
C25_ScalarCopy ==
    [][/\ InM2A =>
            /\ \A s \in 1..Len(signals) : signals'[s].val = signals[s].val
            /\ \A c \in 1..Len(channels) :
                  channels'[c].signal_value_double
                      = channels[c].signal_value_double
       /\ InA2M =>
            \A s \in 1..Len(signals) :
                /\ signals'[s].val = signals[s].val
                /\ signals'[s].final_val = signals[s].final_val
      ]_vars

\* A model-to-adapter pass has copied 7 into final_val while val is 0 and the
\* model function's array still holds the 7.
C25_CopiedToFinal ==
    /\ pc = "step_ready"
    /\ Len(signals) = 3
    /\ signals[1].final_val = 7
    /\ signals[1].val = 0
    /\ signals[2].final_val = 0
    /\ signals[2].val = 7
    /\ channels[1].signal_value_double = << 7, 0 >>


\* The bytes the binary slots mapped to signal s hold, in the order marshal
\* visits the slots from (c, si) on.
RECURSIVE SlotBytes(_, _, _, _)
SlotBytes(chs, s, c, si) ==
    IF c > Len(chs) THEN << >>
    ELSE IF ~HasBinary(chs[c]) \/ si > Len(chs[c].sm)
         THEN SlotBytes(chs, s, c + 1, 1)
         ELSE (IF chs[c].sm[si] = s THEN chs[c].signal_value_binary[si]
                                    ELSE << >>)
              \o SlotBytes(chs, s, c, si + 1)

\* Slot x is the first binary slot marshal visits for its signal.
FirstSlot(x) ==
    \A y \in BinarySlots :
        channels[y[1]].sm[y[2]] = channels[x[1]].sm[x[2]]
            => (y[1] > x[1] \/ (y[1] = x[1] /\ y[2] >= x[2]))

\* C26: binary marshaling transfers.  After the model-to-adapter pass every
\* model function's binary size is 0 and each signal holds its prior bytes
\* followed by the bytes of the slots mapped to it, in the order visited;
\* after the adapter-to-model pass every mapped signal's binary size is 0
\* and each slot holds its prior bytes followed by the signal's bytes (which
\* the first slot visited takes): no byte is lost, duplicated or reordered.
C26_BinaryTransfer ==
    [][/\ InM2A =>
            /\ \A x \in BinarySlots :
                  BinSize(channels'[x[1]].signal_value_binary[x[2]]) = 0
            /\ \A s \in 1..Len(signals) :
                  signals'[s].bin
                      = signals[s].bin \o SlotBytes(channels, s, 1, 1)
       /\ InA2M =>
            \A x \in BinarySlots :
                LET mfc == channels[x[1]]
                    s == mfc.sm[x[2]]
                IN  /\ BinSize(signals'[s].bin) = 0
                    /\ channels'[x[1]].signal_value_binary[x[2]]
                          = mfc.signal_value_binary[x[2]]
                              \o (IF FirstSlot(x) THEN signals[s].bin
                                                  ELSE << >>)
      ]_vars

\* Two model functions share one binary signal: the first took the bus's
\* bytes 1 2 and added 9, the second wrote 9; after the model-to-adapter
\* pass the signal holds 1 2 9 9 and both slots are empty.
C26_BothAppended ==
    /\ pc = "step_ready"
    /\ Len(channels) = 2
    /\ signals[1].bin = << 1, 2, 9, 9 >>
    /\ channels[1].signal_value_binary = << << >> >>
    /\ channels[2].signal_value_binary = << << >> >>


\* C27: after either marshaling pass every signal's binary size is at most
\* its buffer size, every model function's binary slot holds at most its
\* capacity, and no capacity is smaller than it was before the pass.
C27_SizeWithinCapacity ==
    [][(InM2A \/ InA2M) =>
          /\ \A s \in 1..Len(signals) :
                /\ BinSize(signals'[s].bin) <= signals'[s].bin_buffer_size
                /\ signals'[s].bin_buffer_size >= signals[s].bin_buffer_size
          /\ \A x \in BinarySlots :
                LET old == channels[x[1]]
                    new == channels'[x[1]]
                IN  /\ BinSize(new.signal_value_binary[x[2]])
                          <= new.signal_value_binary_buffer_size[x[2]]
                    /\ new.signal_value_binary_buffer_size[x[2]]
                          >= old.signal_value_binary_buffer_size[x[2]]
      ]_vars

\* The slot grew to 3 bytes in the first tick; in the second tick the
\* adapter-to-model pass put 2 bytes into it and the capacity is still 3.
C27_CapacityRetained ==
    /\ pc = "step_models"
    /\ ticks = 2
    /\ Len(channels) = 1
    /\ channels[1].signal_value_binary = << << 1, 2 >> >>
    /\ channels[1].signal_value_binary_buffer_size = << 3 >>
    /\ signals[1].bin = << >>
    /\ signals[1].bin_buffer_size = 3


\* ---------------------------------------------------------------------------
\* C28: endpoint creation terminates.  retry_count starts at no more than 60
\* and every loop pass either ends the loop or lowers it, keeping it
\* positive, so that no more than 60 attempts are made; a successful attempt returns the endpoint at once; a
\* failed attempt that finds the stop request set aborts with ECANCELED and
\* is never followed by another attempt; the loop gives up without an
\* endpoint only when the count is used up.
C28_EndpointCreationEnds ==
    [][/\ (pc = "start" /\ pc' = "ep_create") => retry_count' \in 1..60
       /\ (pc = "ep_create" /\ retry_count' # retry_count) =>
             /\ retry_count >= 1
             /\ pc' \in {"ep_create", "uid", "exited"}
             /\ pc' = "ep_create" =>
                   /\ retry_count' = retry_count - 1
                   /\ retry_count' >= 1
                   /\ ~mc_stop_request
             /\ pc' = "exited" =>
                   \/ retry_count = 1 /\ errno' = errno
                   \/ mc_stop_request /\ errno' = E.ECANCELED
             /\ (mc_stop_request /\ retry_count > 1 /\ pc' # "uid") =>
                   pc' = "exited" /\ errno' = E.ECANCELED
      ]_vars

\* The 59th attempt has failed and no stop was requested: the next pass
\* ends the loop.
C28_LastPass ==
    /\ pc = "ep_create"
    /\ retry_count = 1
    /\ ~mc_stop_request


\* ---------------------------------------------------------------------------
\* C29: within one tick every model function of an instance is called with
\* the same (model_time, stop_time), the adapter model's values when the
\* instance's stepping began; what a handler leaves in the model time it was
\* given reaches neither another handler nor step_data, and the adapter
\* model's model_time is set to stop_time whatever the handlers wrote.
C29_HandlersSeeSameTimes ==
    [][(pc = "step_models" /\ tickLog' = Append(tickLog, << "step", idx >>)) =>
          /\ handler_times' \subseteq { << model_time[idx], stop_time[idx] >> }
          /\ model_functions[idx] # {} => handler_times' # {}
          /\ step_data'[idx] = [model_time |-> model_time[idx],
                                stop_time |-> stop_time[idx]]
          /\ model_time'[idx] = stop_time[idx]
      ]_vars

\* The second instance has two model functions; both were called with
\* (2, 4), and the adapter model's time is now 4.
C29_TwoHandlersStepped ==
    /\ pc = "step_end"
    /\ idx = 2
    /\ Cardinality(model_functions[2]) = 2
    /\ { f \in model_functions[2] : << 2, f >> \in invoked } = model_functions[2]
    /\ handler_times = { << 2, 4 >> }
    /\ model_time[2] = 4


\* ---------------------------------------------------------------------------
\* The positions of modelc_run after controller_init: controller_load_models
\* with its creates, controller_bus_ready, and the ticks of controller_run.
AfterInit ==
    {"load_entry", "load", "create", "in_create", "load_ret", "bus_start",
     "bus_connect", "bus_check", "bus_ret", "run_check", "step_enter",
     "step_ready", "step_a2m", "step_models", "step_end", "step_ret"}

\* C32: when controller_init fails inside modelc_run, modelc_run goes on to
\* no load_models, create, bus_ready or step: every later phase of the run
\* works on a controller that was successfully initialised.
C32_NoPhaseAfterFailedInit ==
    (call.fn = "run" /\ pc \in AfterInit) => controller = "live"


====
